---- MODULE Spec2Model ----
(***************************************************************************)
(* A model of globiter: Pattern::parse (src/src/pattern.rs), the tokens    *)
(* and their value iterators (src/src/token.rs) and the expansion          *)
(* Pattern::iter.                                                          *)
(*                                                                         *)
(* A character is its Unicode code point, a string (&str, String) is the   *)
(* sequence of its characters.  Byte offsets are computed from the UTF-8   *)
(* length of each character, as char_indices and len_utf8 do.              *)
(***************************************************************************)
EXTENDS Integers, Sequences, FiniteSets, TLC

(***************************************************************************)
(* Characters the code names.                                              *)
(***************************************************************************)
LBrace == 123
RBrace == 125
LBracket == 91
RBracket == 93
Comma == 44
Hyphen == 45
Plus == 43
Space == 32
Digit0 == 48
Digit9 == 57
LowerA == 97
LowerZ == 122
UpperA == 65
UpperZ == 90

\* char::len_utf8
Utf8Len(c) ==
    IF c < 128 THEN 1 ELSE IF c < 2048 THEN 2 ELSE IF c < 65536 THEN 3 ELSE 4

\* char::is_whitespace (the Unicode White_Space property), used by str::trim
IsWhitespace(c) ==
    c \in ({9, 10, 11, 12, 13, 32, 133, 160, 5760, 8232, 8233, 8239, 8287, 12288}
             \cup (8192..8202))

\* str::len: the length of a string in bytes
RECURSIVE ByteLen(_)
ByteLen(str) ==
    IF str = <<>> THEN 0 ELSE Utf8Len(Head(str)) + ByteLen(Tail(str))

\* the byte offset of the k-th character (k = 1 is offset 0), as char_indices
ByteOffset(str, k) == ByteLen(SubSeq(str, 1, k - 1))

\* &s[i..j]: the characters whose byte offset lies in [i, j)
Slice(str, i, j) ==
    LET ks == {k \in 1..Len(str) : ByteOffset(str, k) >= i /\ ByteOffset(str, k) < j}
    IN  IF ks = {} THEN <<>>
        ELSE SubSeq(str, CHOOSE k \in ks : \A m \in ks : k <= m,
                         CHOOSE k \in ks : \A m \in ks : k >= m)

\* str::trim: leading and trailing whitespace removed
RECURSIVE TrimStart(_)
TrimStart(str) ==
    IF str # <<>> /\ IsWhitespace(Head(str)) THEN TrimStart(Tail(str)) ELSE str

RECURSIVE TrimEnd(_)
TrimEnd(str) ==
    IF str # <<>> /\ IsWhitespace(str[Len(str)])
    THEN TrimEnd(SubSeq(str, 1, Len(str) - 1))
    ELSE str

\* only the leading whitespace removed
Trim_start_only(str) == TrimStart(str)

Trim(str) == TrimEnd(TrimStart(str))

\* Option<T>: None is the empty sequence, Some(v) is <<v>>
None == <<>>
Some(v) == <<v>>

\* str::chars().next()
FirstChar(str) == IF str = <<>> THEN None ELSE Some(Head(str))

IsAsciiDigit(c) == c >= Digit0 /\ c <= Digit9
IsAsciiLower(c) == c >= LowerA /\ c <= LowerZ
IsAsciiUpper(c) == c >= UpperA /\ c <= UpperZ
IsAsciiLetter(c) == IsAsciiLower(c) \/ IsAsciiUpper(c)

(***************************************************************************)
(* token.rs: Token and its constructors.                                   *)
(***************************************************************************)
new_plain(str) == [kind |-> "Plain", text |-> str]
\* a set that drops its empty alternatives
new_set_nonempty(v) ==
    [kind |-> "Set", values |-> SelectSeq(v, LAMBDA x : x # <<>>)]
new_set(v) == [kind |-> "Set", values |-> v]
\* a range put in ascending order
new_num_range_sorted(start, end, padding) ==
    [kind |-> "NumRange",
     start |-> IF start < end THEN start ELSE end,
     end |-> IF start < end THEN end ELSE start,
     padding |-> padding]

new_num_range(start, end, padding) ==
    [kind |-> "NumRange", start |-> start, end |-> end, padding |-> padding]
StrRange(start, end, uppercase) ==
    [kind |-> "StrRange", start |-> start, end |-> end, uppercase |-> uppercase]

\* Result<T>: Ok(v) or Err(e)
Ok(v) == [ok |-> TRUE, val |-> v]
Err(e) == [ok |-> FALSE, err |-> e]

\* usize.  Its width is the target's; it is taken as that of a 16-bit
\* target, the narrowest there is, where an endpoint of four letters or of
\* five digits is already too large.  On a 64-bit target the same happens
\* with fourteen letters and twenty digits.
UsizeBits == 16
UsizeMax == 2^UsizeBits - 1

\* the alphabets 'a'..='z' and 'A'..='Z'
LowerRadix == [start |-> LowerA, end |-> LowerZ]
UpperRadix == [start |-> UpperA, end |-> UpperZ]
RadixOf(uppercase) == IF uppercase THEN UpperRadix ELSE LowerRadix
RadixSize(radix) == radix.end - radix.start + 1

\* positional digits with a zero: x % n, x / n
RECURSIVE AlphabeticDigits_with_zero(_, _)
AlphabeticDigits_with_zero(x, radix) ==
    IF x > 0
    THEN <<(x % RadixSize(radix)) + radix.start>>
            \o AlphabeticDigits_with_zero(x \div RadixSize(radix), radix)
    ELSE <<>>

\* to_alphabetic_radix: the digits are pushed least significant first ...
RECURSIVE AlphabeticDigits(_, _)
AlphabeticDigits(x, radix) ==
    IF x > 0
    THEN <<((x - 1) % RadixSize(radix)) + radix.start>>
            \o AlphabeticDigits((x - 1) \div RadixSize(radix), radix)
    ELSE <<>>

Reverse(str) == [k \in 1..Len(str) |-> str[Len(str) + 1 - k]]

\* the digits left least significant first
to_alphabetic_radix_unreversed(x, radix) == AlphabeticDigits(x, radix)

\* ... and reversed
to_alphabetic_radix(x, radix) == Reverse(AlphabeticDigits(x, radix))

\* parse_alphabetic_radix: try_fold from 0, failing at the first character
\* outside the radix
RECURSIVE AlphabeticFold(_, _, _)
AlphabeticFold(acc, str, radix) ==
    IF str = <<>> THEN Ok(acc)
    ELSE IF Head(str) >= radix.start /\ Head(str) <= radix.end
    THEN AlphabeticFold((acc * RadixSize(radix) + Head(str) - radix.start + 1)
                            % (UsizeMax + 1),
                        Tail(str), radix)
    ELSE Err([msg |-> "char not in range", char |-> Head(str)])

\* the fold's arithmetic, acc * n + (x as usize) - (start as usize) + 1, is
\* unchecked: whether a step of the fold leaves usize before the fold meets
\* a character outside the radix.  The subtraction and the + 1 stay below
\* acc * n + x, as x >= start.
RECURSIVE AlphabeticOverflows(_, _, _)
AlphabeticOverflows(acc, str, radix) ==
    IF str = <<>> THEN FALSE
    ELSE IF Head(str) >= radix.start /\ Head(str) <= radix.end
    THEN \/ acc * RadixSize(radix) + Head(str) > UsizeMax
         \/ AlphabeticOverflows(acc * RadixSize(radix) + Head(str) - radix.start + 1,
                                Tail(str), radix)
    ELSE FALSE

\* the fold with no check of the characters against the radix
RECURSIVE AlphabeticFoldAny(_, _, _)
AlphabeticFoldAny(acc, str, radix) ==
    IF str = <<>> THEN Ok(acc)
    ELSE AlphabeticFoldAny(acc * RadixSize(radix) + Head(str) - radix.start + 1,
                           Tail(str), radix)

parse_alphabetic_radix_unchecked(str, radix) == AlphabeticFoldAny(0, str, radix)

parse_alphabetic_radix(str, radix) == AlphabeticFold(0, str, radix)

\* Token::new_str_range
new_str_range(start, end) ==
    IF start = <<>> THEN Err([msg |-> "range start cannot be empty"])
    ELSE IF end = <<>> THEN Err([msg |-> "range end cannot be empty"])
    ELSE IF IsAsciiUpper(Head(start)) # IsAsciiUpper(Head(end))
    THEN Err([msg |-> "mixed uppercase with lowercase in alphabetic range"])
    ELSE LET uppercase == IsAsciiUpper(Head(start))
             lo == parse_alphabetic_radix(start, RadixOf(uppercase))
             hi == parse_alphabetic_radix(end, RadixOf(uppercase))
         IN  IF ~lo.ok THEN lo
             ELSE IF ~hi.ok THEN hi
             ELSE Ok(StrRange(lo.val, hi.val, uppercase))

\* str::parse::<usize>: an optional '+', then one or more ASCII digits
RECURSIVE DigitFold(_, _)
DigitFold(acc, str) ==
    IF str = <<>> THEN Ok(acc)
    ELSE IF IsAsciiDigit(Head(str))
    THEN IF acc * 10 + Head(str) - Digit0 > UsizeMax
         THEN Err([msg |-> "number too large to fit in target type"])
         ELSE DigitFold(acc * 10 + Head(str) - Digit0, Tail(str))
    ELSE Err([msg |-> "invalid digit found in string"])

ParseUsize(str) ==
    LET digits == IF str # <<>> /\ Head(str) = Plus THEN Tail(str) ELSE str
    IN  IF str = <<>> THEN Err([msg |-> "cannot parse integer from empty string"])
        ELSE IF digits = <<>> THEN Err([msg |-> "invalid digit found in string"])
        ELSE DigitFold(0, digits)

\* the longer endpoint's length
Padding_max(start, end) ==
    IF ByteLen(start) < ByteLen(end) THEN ByteLen(end) ELSE ByteLen(start)

\* start.len().min(end.len()): the padding width of a numeric range
Padding(start, end) ==
    IF ByteLen(start) < ByteLen(end) THEN ByteLen(start) ELSE ByteLen(end)

\* the ']' arm of Pattern::parse: the token of the range start-end, where
\* end is already trimmed
RangeToken(start, end, idx) ==
    LET c1 == FirstChar(start)
        c2 == FirstChar(end)
    IN  IF c1 # None /\ c2 # None /\ IsAsciiLetter(c1[1]) /\ IsAsciiLetter(c2[1])
        THEN new_str_range(start, end)
        ELSE IF c1 # None /\ c2 # None /\ IsAsciiDigit(c1[1]) /\ IsAsciiDigit(c2[1])
        THEN LET padding == Padding(start, end)
                 lo == ParseUsize(start)
                 hi == ParseUsize(end)
             IN  IF ~lo.ok THEN lo
                 ELSE IF ~hi.ok THEN hi
                 ELSE Ok(new_num_range(lo.val, hi.val, padding))
        ELSE Err([msg |-> "invalid characters in range token before pos", pos |-> idx])

\* whether the arithmetic of the ']' arm overflows: the endpoints are
\* letters of one case, and parse_alphabetic_radix overflows on start, or
\* returns Ok for start and overflows on end
RangeOverflows(start, end) ==
    LET c1 == FirstChar(start)
        c2 == FirstChar(end)
    IN  /\ c1 # None /\ c2 # None /\ IsAsciiLetter(c1[1]) /\ IsAsciiLetter(c2[1])
        /\ IsAsciiUpper(c1[1]) = IsAsciiUpper(c2[1])
        /\ LET radix == RadixOf(IsAsciiUpper(c1[1]))
           IN  \/ AlphabeticOverflows(0, start, radix)
               \/ /\ parse_alphabetic_radix(start, radix).ok
                  /\ AlphabeticOverflows(0, end, radix)

(***************************************************************************)
(* token.rs: TokenIter.                                                    *)
(***************************************************************************)
\* start..=end (RangeInclusive<usize>) and its Iterator::next
RangeInclusive(start, end) == [start |-> start, end |-> end, exhausted |-> FALSE]

RangeNext(r) ==
    IF r.exhausted \/ r.start > r.end THEN [val |-> None, range |-> r]
    ELSE IF r.start < r.end
    THEN [val |-> Some(r.start), range |-> [r EXCEPT !.start = @ + 1]]
    ELSE [val |-> Some(r.start), range |-> [r EXCEPT !.exhausted = TRUE]]

\* TokenIter::new
TokenIter_new(t) ==
    CASE t.kind = "Plain" -> [kind |-> "Plain", v |-> Some(t.text)]
      [] t.kind = "Set" -> [kind |-> "Set", rest |-> t.values]
      [] t.kind = "NumRange" ->
            [kind |-> "NumRange", range |-> RangeInclusive(t.start, t.end),
             padding |-> t.padding]
      [] t.kind = "StrRange" ->
            [kind |-> "StrRange", range |-> RangeInclusive(t.start, t.end),
             uppercase |-> t.uppercase]

\* the decimal digits of x, most significant first
RECURSIVE Decimal(_)
Decimal(x) ==
    IF x < 10 THEN <<Digit0 + x>>
    ELSE Decimal(x \div 10) \o <<Digit0 + (x % 10)>>

RECURSIVE ZeroPad(_, _)
ZeroPad(str, width) ==
    IF Len(str) < width THEN ZeroPad(<<Digit0>> \o str, width) ELSE str

\* format!("{:0padding$}", x)
FormatPadded(x, padding) == ZeroPad(Decimal(x), padding)

\* <TokenIter as Iterator>::next: the value drawn and the iterator after it
TokenIter_next(it) ==
    CASE it.kind = "Plain" -> [val |-> it.v, it |-> [it EXCEPT !.v = None]]
      [] it.kind = "Set" ->
            IF it.rest = <<>> THEN [val |-> None, it |-> it]
            ELSE [val |-> Some(Head(it.rest)), it |-> [it EXCEPT !.rest = Tail(@)]]
      [] it.kind = "NumRange" ->
            LET r == RangeNext(it.range)
            IN  [val |-> IF r.val = None THEN None
                         ELSE Some(FormatPadded(r.val[1], it.padding)),
                 it |-> [it EXCEPT !.range = r.range]]
      [] it.kind = "StrRange" ->
            LET r == RangeNext(it.range)
            IN  [val |-> IF r.val = None THEN None
                         ELSE Some(to_alphabetic_radix(r.val[1], RadixOf(it.uppercase))),
                 it |-> [it EXCEPT !.range = r.range]]

(***************************************************************************)
(* pattern.rs, Pattern::iter: multi_cartesian_product over the tokens'     *)
(* iterators, each combination joined.  Every factor keeps its current     *)
(* value, its iterator and a pristine copy to restart from.                *)
(***************************************************************************)
MultiProductIter_new(it) == [cur |-> None, iter |-> it, iter_orig |-> it]

Iterate(f) ==
    LET r == TokenIter_next(f.iter) IN [f EXCEPT !.cur = r.val, !.iter = r.it]

\* a factor that is not restarted
Reset_keeps(f) == f
Reset(f) == [f EXCEPT !.iter = f.iter_orig]

\* the odometer step over the factors 1..n: the last factor advances, and on
\* its end the factors before it advance and it restarts
RECURSIVE IterateLast(_, _, _)
IterateLast(mi, n, state) ==
    IF n = 0 THEN [ok |-> (state = "MidIterFirst"), mi |-> mi]
    ELSE LET last == mi[n]
             on_first_iter == IF state = "StartOfIter" THEN last.cur = None
                              ELSE state = "MidIterFirst"
             state2 == IF on_first_iter THEN "MidIterFirst" ELSE "MidIterRest"
             last1 == IF on_first_iter THEN last ELSE Iterate(last)
         IN  IF last1.cur # None THEN [ok |-> TRUE, mi |-> [mi EXCEPT ![n] = last1]]
             ELSE LET r == IterateLast([mi EXCEPT ![n] = last1], n - 1, state2)
                      last2 == Iterate(Reset(r.mi[n]))
                  IN  IF r.ok
                      THEN [ok |-> last2.cur # None, mi |-> [r.mi EXCEPT ![n] = last2]]
                      ELSE [ok |-> FALSE, mi |-> r.mi]

\* v.join(""): the concatenation of the factors' current values
RECURSIVE Join(_)
Join(vals) == IF vals = <<>> THEN <<>> ELSE Head(vals) \o Join(Tail(vals))

CurrValues(mi) == [k \in 1..Len(mi) |-> mi[k].cur[1]]

\* Pattern::iter: a fresh expansion sequence over the pattern's tokens
Pattern_iter(toks) ==
    [mp |-> [k \in 1..Len(toks) |-> MultiProductIter_new(TokenIter_new(toks[k]))],
     out |-> <<>>,
     done |-> FALSE]

(***************************************************************************)
(* The state: the input s of Pattern::parse, the locals of its scan (pos   *)
(* is the index in s of the character the loop is at, i and j the byte     *)
(* offsets of the pending segment, state the parser state), the tokens of  *)
(* the pattern under construction, the result of parse, and the expansion  *)
(* sequences the caller has obtained with iter(), at most maxIters.  conv   *)
(* is a call of the alphabetic conversions on their own: a rank or a       *)
(* string, converted and converted back.  build is what the run has shown  *)
(* of the build the crate is part of: which itertools release it links     *)
(* and whether its arithmetic is overflow-checked.  Neither is decided by  *)
(* the two source files; each is fixed for a whole run the first time the  *)
(* run depends on it.                                                      *)
(***************************************************************************)
VARIABLES s, pos, i, j, state, tokens, result, iters, maxIters, conv, build

\* nothing of the build has been observed yet
Unobserved == "unobserved"
AnyBuild == [nullary |-> Unobserved, overflow |-> Unobserved]

vars == <<s, pos, i, j, state, tokens, result, iters, maxIters, conv, build>>

NoConv == [phase |-> "none"]

\* enum State
Plain == [kind |-> "Plain"]
InSet(v) == [kind |-> "InSet", set |-> v]
InRange(start) == [kind |-> "InRange", start |-> start]

Parsing == [kind |-> "Parsing"]
ParseOk == [kind |-> "Ok"]
ParseErr(e) == [kind |-> "Err", err |-> e]
\* parse did not return: the thread panicked
ParsePanic(e) == [kind |-> "Panic", err |-> e]

\* bail!("unexpected character '{c}' at pos {idx}")
Unexpected(c, idx) == [msg |-> "unexpected character", char |-> c, pos |-> idx]

\* the loop variables of `for (idx, char) in s.char_indices()`
AtChar == result = Parsing /\ pos <= Len(s)
char == s[pos]
\* the position counted in characters, not bytes
idx_in_chars == pos - 1
idx == ByteOffset(s, pos)
next_idx == idx + Utf8Len(char)

Bail(e) ==
    /\ result' = ParseErr(e)
    /\ UNCHANGED <<s, pos, i, j, state, tokens, iters, maxIters, conv, build>>

\* '{'
OpenSet ==
    /\ AtChar /\ char = LBrace
    /\ IF state.kind = "Plain"
       THEN /\ tokens' = Append(tokens, new_plain(Slice(s, i, j)))
            /\ i' = next_idx /\ j' = next_idx /\ state' = InSet(<<>>)
            /\ pos' = pos + 1
            /\ UNCHANGED <<s, result, iters, maxIters, conv, build>>
       ELSE Bail(Unexpected(char, idx))

\* '['
OpenRange ==
    /\ AtChar /\ char = LBracket
    /\ IF state.kind = "Plain"
       THEN /\ tokens' = Append(tokens, new_plain(Slice(s, i, j)))
            /\ i' = next_idx /\ j' = next_idx /\ state' = InRange(<<>>)
            /\ pos' = pos + 1
            /\ UNCHANGED <<s, result, iters, maxIters, conv, build>>
       ELSE Bail(Unexpected(char, idx))

\* '}'
CloseSet ==
    /\ AtChar /\ char = RBrace
    /\ IF state.kind = "InSet"
       THEN /\ tokens' = Append(tokens, new_set(Append(state.set, Trim(Slice(s, i, j)))))
            /\ i' = next_idx /\ j' = next_idx /\ state' = Plain
            /\ pos' = pos + 1
            /\ UNCHANGED <<s, result, iters, maxIters, conv, build>>
       ELSE Bail(Unexpected(char, idx))

\* ']'
CloseRange ==
    /\ AtChar /\ char = RBracket
    /\ IF state.kind = "InRange"
       THEN LET end == Trim(Slice(s, i, j))
                token == RangeToken(state.start, end, idx)
                Return ==
                    IF token.ok
                    THEN /\ tokens' = Append(tokens, token.val)
                         /\ i' = next_idx /\ j' = next_idx /\ state' = Plain
                         /\ pos' = pos + 1
                         /\ UNCHANGED <<s, result, iters, maxIters, conv>>
                    ELSE /\ result' = ParseErr(token.err)
                         /\ UNCHANGED <<s, pos, i, j, state, tokens, iters, maxIters, conv>>
            IN  IF RangeOverflows(state.start, end)
                THEN \/ /\ build.overflow \in {Unobserved, "panic"}
                        /\ build' = [build EXCEPT !.overflow = "panic"]
                        /\ result' = ParsePanic([msg |-> "arithmetic overflow"])
                        /\ UNCHANGED <<s, pos, i, j, state, tokens, iters, maxIters, conv>>
                     \/ /\ build.overflow \in {Unobserved, "wrap"}
                        /\ build' = [build EXCEPT !.overflow = "wrap"]
                        /\ Return
                ELSE Return /\ UNCHANGED build
       ELSE Bail(Unexpected(char, idx))

\* ','
ScanComma ==
    /\ AtChar /\ char = Comma
    /\ CASE state.kind = "Plain" ->
                /\ j' = next_idx /\ pos' = pos + 1
                /\ UNCHANGED <<s, i, state, tokens, result, iters, maxIters, conv, build>>
         [] state.kind = "InSet" ->
                /\ state' = InSet(Append(state.set, Trim(Slice(s, i, j))))
                /\ i' = next_idx /\ j' = next_idx /\ pos' = pos + 1
                /\ UNCHANGED <<s, tokens, result, iters, maxIters, conv, build>>
         [] OTHER -> Bail(Unexpected(char, idx))

\* '-' ends an alternative of a set, as ',' does
ScanHyphen_splits ==
    /\ AtChar /\ char = Hyphen
    /\ CASE state.kind = "InRange" ->
                /\ state' = InRange(Trim(Slice(s, i, j)))
                /\ i' = next_idx /\ j' = next_idx /\ pos' = pos + 1
                /\ UNCHANGED <<s, tokens, result, iters, maxIters, conv, build>>
         [] state.kind = "InSet" ->
                /\ state' = InSet(Append(state.set, Trim(Slice(s, i, j))))
                /\ i' = next_idx /\ j' = next_idx /\ pos' = pos + 1
                /\ UNCHANGED <<s, tokens, result, iters, maxIters, conv, build>>
         [] OTHER ->
                /\ j' = next_idx /\ pos' = pos + 1
                /\ UNCHANGED <<s, i, state, tokens, result, iters, maxIters, conv, build>>

\* '-'
ScanHyphen ==
    /\ AtChar /\ char = Hyphen
    /\ IF state.kind = "InRange"
       THEN /\ state' = InRange(Trim(Slice(s, i, j)))
            /\ i' = next_idx /\ j' = next_idx /\ pos' = pos + 1
            /\ UNCHANGED <<s, tokens, result, iters, maxIters, conv, build>>
       ELSE /\ j' = next_idx /\ pos' = pos + 1
            /\ UNCHANGED <<s, i, state, tokens, result, iters, maxIters, conv, build>>

\* any other character
ScanOther ==
    /\ AtChar /\ char \notin {LBrace, LBracket, RBrace, RBracket, Comma, Hyphen}
    /\ j' = next_idx /\ pos' = pos + 1
    /\ UNCHANGED <<s, i, state, tokens, result, iters, maxIters, conv, build>>

\* the end of the scan: the pending segment, if any, and Ok(pattern)
ParseEnd ==
    /\ result = Parsing /\ pos = Len(s) + 1
    /\ tokens' = IF j > i THEN Append(tokens, new_plain(Trim(Slice(s, i, j))))
                 ELSE tokens
    /\ result' = ParseOk
    /\ UNCHANGED <<s, pos, i, j, state, iters, maxIters, conv, build>>

\* iter() hands out the position of the sequence obtained first
CallIter_resumed ==
    /\ result = ParseOk /\ Len(iters) < maxIters
    /\ iters' = Append(iters, IF iters = <<>> THEN Pattern_iter(tokens)
                              ELSE [iters[1] EXCEPT !.out = <<>>])
    /\ UNCHANGED <<s, pos, i, j, state, tokens, result, maxIters, conv, build>>

\* the caller obtains one more expansion sequence: pattern.iter()
CallIter ==
    /\ result = ParseOk /\ Len(iters) < maxIters
    /\ iters' = Append(iters, Pattern_iter(tokens))
    /\ UNCHANGED <<s, pos, i, j, state, tokens, result, maxIters, conv, build>>

\* next() on the k-th expansion sequence
DrawOf(it) ==
    LET r == IterateLast(it.mp, Len(it.mp), "StartOfIter")
    IN  IF r.ok
        THEN [it EXCEPT !.mp = r.mi, !.out = Append(@, Join(CurrValues(r.mi)))]
        ELSE [it EXCEPT !.mp = r.mi, !.done = TRUE]

\* the sequences share one position: a draw moves it for all of them
Draw_shared ==
    /\ \E k \in 1..Len(iters) :
          /\ ~iters[k].done /\ iters[k].mp # <<>>
          /\ iters' = [n \in 1..Len(iters) |->
                          IF n = k THEN DrawOf(iters[k])
                          ELSE [iters[n] EXCEPT !.mp = DrawOf(iters[k]).mp]]
    /\ UNCHANGED <<s, pos, i, j, state, tokens, result, maxIters, conv, build>>

Draw ==
    /\ \E k \in 1..Len(iters) :
          /\ ~iters[k].done /\ iters[k].mp # <<>>
          /\ iters' = [iters EXCEPT ![k] = DrawOf(@)]
    /\ UNCHANGED <<s, pos, i, j, state, tokens, result, maxIters, conv, build>>

\* next() on the expansion of a pattern with no tokens.  The product of no
\* factors depends on the itertools release the crate is built with: nothing
\* at all (as IterateLast gives for n = 0), or the one empty combination.
DrawNullary ==
    /\ \E k \in 1..Len(iters) :
          /\ ~iters[k].done /\ iters[k].mp = <<>>
          /\ \/ /\ build.nullary \in {Unobserved, "one"}
                /\ build' = [build EXCEPT !.nullary = "one"]
                /\ iters' = IF iters[k].out = <<>>
                            THEN [iters EXCEPT ![k].out = <<Join(<<>>)>>]
                            ELSE [iters EXCEPT ![k].done = TRUE]
             \/ /\ build.nullary \in {Unobserved, "nothing"}
                /\ build' = [build EXCEPT !.nullary = "nothing"]
                /\ iters' = [iters EXCEPT ![k].done = TRUE]
    /\ UNCHANGED <<s, pos, i, j, state, tokens, result, maxIters, conv>>

Next ==
    \/ OpenSet \/ OpenRange \/ CloseSet \/ CloseRange
    \/ ScanComma \/ ScanHyphen \/ ScanOther \/ ParseEnd
    \/ CallIter \/ Draw \/ DrawNullary

\* Pattern::parse is called on the input str, with n expansions to come
Start(str, n) ==
    /\ s = str /\ pos = 1 /\ i = 0 /\ j = 0 /\ state = Plain
    /\ tokens = <<>> /\ result = Parsing /\ iters = <<>> /\ maxIters = n
    /\ conv = NoConv /\ build = AnyBuild

(***************************************************************************)
(* Inputs.  The cases of the crate's tests (tests::test_parse, test_iter   *)
(* and test_parse_error, with "https://example.com" dropped), as code     *)
(* points.                                                                 *)
(***************************************************************************)
\* ""
T_empty == <<>>
\* "Hello, World!"
T_normal == <<72, 101, 108, 108, 111, 44, 32, 87, 111, 114, 108, 100, 33>>
\* "/{a,b,c}/file/{x,y,z}"
T_two_set == <<47, 123, 97, 44, 98, 44, 99, 125, 47, 102, 105, 108, 101, 47, 123, 120, 44, 121, 44, 122, 125>>
\* "/{a, b , c }/{foo bar, <U+4F60><U+597D>}"
T_spaces == <<47, 123, 97, 44, 32, 98, 32, 44, 32, 99, 32, 125, 47, 123, 102, 111, 111, 32, 98, 97, 114, 44, 32, 20320, 22909, 125>>
\* "/[080-120]/file"
T_num_range == <<47, 91, 48, 56, 48, 45, 49, 50, 48, 93, 47, 102, 105, 108, 101>>
\* "/[1-2]/file/[099-101]"
T_two_num_range == <<47, 91, 49, 45, 50, 93, 47, 102, 105, 108, 101, 47, 91, 48, 57, 57, 45, 49, 48, 49, 93>>
\* "/[A-C]/file"
T_letter_range == <<47, 91, 65, 45, 67, 93, 47, 102, 105, 108, 101>>
\* "/[ay-bc]/file"
T_letters_range == <<47, 91, 97, 121, 45, 98, 99, 93, 47, 102, 105, 108, 101>>
\* "/{{a, b}"
T_bad1 == <<47, 123, 123, 97, 44, 32, 98, 125>>
\* "/{a}}"
T_bad2 == <<47, 123, 97, 125, 125>>

TestInputs ==
    {T_empty, T_normal, T_two_set, T_spaces, T_num_range, T_two_num_range, T_letter_range, T_letters_range, T_bad1, T_bad2}

\* "/[a-crxr]": the end's rank, 65538, is beyond usize; modulo 2^16 it is 2
OverflowInput == <<47, 91, 97, 45, 99, 114, 120, 114, 93>>

\* the inputs every specification starts from, besides its own
CommonInputs == TestInputs \cup {OverflowInput}

\* all strings over the alphabet A of at most n characters
Strings(A, n) == UNION {[1..m -> A] : m \in 0..n}

\* the longest input of Spec
MaxLen == 4
LetterLowerA == 97
CjkNi == 20320

\* the delimiters, a space, a letter and a three-byte character
Alphabet ==
    {LBrace, RBrace, LBracket, RBracket, Comma, Hyphen, Space, LetterLowerA, CjkNi}

Init == \E str \in Strings(Alphabet, MaxLen) \cup CommonInputs : Start(str, 1)

Spec == Init /\ [][Next]_vars

\* the concatenation of a sequence of strings
RECURSIVE Concat(_)
Concat(strs) == IF strs = <<>> THEN <<>> ELSE Head(strs) \o Concat(Tail(strs))

\* Patterns made of at most MaxSegs pieces: literals, a set, ascending and
\* descending ranges of numbers and of letters.
MaxSegs == 3

\* "/"
Seg_slash == <<47>>
\* "{a,b}"
Seg_set == <<123, 97, 44, 98, 125>>
\* "[1-3]"
Seg_num == <<91, 49, 45, 51, 93>>
\* "[5-3]"
Seg_num_down == <<91, 53, 45, 51, 93>>
\* "[z-aa]"
Seg_str == <<91, 122, 45, 97, 97, 93>>
\* "[b-a]"
Seg_str_down == <<91, 98, 45, 97, 93>>

Segments ==
    {Seg_slash, Seg_set, Seg_num, Seg_num_down, Seg_str, Seg_str_down}

ProductInputs == {Concat(segs) : segs \in Strings(Segments, MaxSegs)}

InitProduct == \E str \in ProductInputs \cup CommonInputs : Start(str, 1)

SpecProduct == InitProduct /\ [][Next]_vars

\* Patterns of one bracket group "[lo-hi]".  The endpoints are strings of
\* digits, of lowercase letters, of uppercase letters, and mixtures of a
\* letter, a digit and a space, or of either with a non-ASCII letter; a group
\* that parses denotes at most MaxSpan + 1 values.
MaxDigits == 2
MaxLetters == 2
MaxMixed == 2
MaxSpan == 4
Digit1 == 49
LetterLowerB == 98
LatinEAcute == 233

DigitChars == {Digit0, Digit1, Digit9}
LowerChars == {LetterLowerA, LetterLowerB, LowerZ}
UpperChars == {UpperA, UpperZ}
MixedChars == {LetterLowerA, Digit1, Space}

Endpoints ==
    Strings(DigitChars, MaxDigits) \cup Strings(LowerChars, MaxLetters)
        \cup Strings(UpperChars, MaxLetters) \cup Strings(MixedChars, MaxMixed)
        \cup {<<LatinEAcute>>, <<LetterLowerA, LatinEAcute>>, <<Digit1, LatinEAcute>>}

RangeInput(lo, hi) == <<LBracket>> \o lo \o <<Hyphen>> \o hi \o <<RBracket>>

\* the group lo-hi is rejected, or is a range of at most MaxSpan + 1 values
ShortRange(lo, hi) ==
    LET token == RangeToken(Trim(lo), Trim(hi), 0)
    IN  token.ok => token.val.end - token.val.start <= MaxSpan

RangeInputs ==
    {RangeInput(p[1], p[2]) :
        p \in {q \in Endpoints \X Endpoints : ShortRange(q[1], q[2])}}

InitRange == \E str \in RangeInputs \cup CommonInputs : Start(str, 1)

SpecRange == InitRange /\ [][Next]_vars

\* Patterns of one brace group "{body}", the body of at most MaxBody
\* characters: a letter, a space, a comma, a hyphen, a three-byte character.
MaxBody == 4

SetChars == {LetterLowerA, Space, Comma, Hyphen, CjkNi}

SetInput(body) == <<LBrace>> \o body \o <<RBrace>>

SetInputs == {SetInput(body) : body \in Strings(SetChars, MaxBody)}

InitSet == \E str \in SetInputs \cup CommonInputs : Start(str, 1)

SpecSet == InitSet /\ [][Next]_vars

(***************************************************************************)
(* The alphabetic conversions called on their own, as a round trip: from a *)
(* rank of 1..MaxRank to its string and back, and from a string of at most *)
(* MaxRadixLen letters of one alphabet to its rank and back.               *)
(***************************************************************************)
MaxRank == 10000
MaxRadixLen == 2

NotCalled == [kind |-> "NotCalled"]

ConvFromRank(n, uppercase) ==
    [phase |-> "rank", uppercase |-> uppercase, n |-> n, text |-> <<>>, back |-> None]

ConvFromString(str, uppercase) ==
    [phase |-> "string", uppercase |-> uppercase, n |-> 0, text |-> str, back |-> None]

LettersOf(uppercase) == RadixOf(uppercase).start..RadixOf(uppercase).end

InitConv ==
    /\ s = <<>> /\ pos = 1 /\ i = 0 /\ j = 0 /\ state = Plain
    /\ tokens = <<>> /\ result = NotCalled /\ iters = <<>> /\ maxIters = 0
    /\ build = AnyBuild
    /\ \E uppercase \in BOOLEAN :
          \/ \E n \in 1..MaxRank : conv = ConvFromRank(n, uppercase)
          \/ \E str \in Strings(LettersOf(uppercase), MaxRadixLen) \ {<<>>} :
                conv = ConvFromString(str, uppercase)

\* to_alphabetic_radix(n, radix)
RankToText ==
    /\ conv.phase = "rank"
    /\ conv' = [conv EXCEPT !.phase = "text",
                            !.text = to_alphabetic_radix(conv.n, RadixOf(conv.uppercase))]
    /\ UNCHANGED <<s, pos, i, j, state, tokens, result, iters, maxIters, build>>

\* parse_alphabetic_radix of that text
TextToRank ==
    /\ conv.phase = "text"
    /\ conv' = [conv EXCEPT !.phase = "back",
                            !.back = parse_alphabetic_radix(conv.text, RadixOf(conv.uppercase))]
    /\ UNCHANGED <<s, pos, i, j, state, tokens, result, iters, maxIters, build>>

\* parse_alphabetic_radix(str, radix)?
StringToRank ==
    /\ conv.phase = "string"
    /\ LET r == parse_alphabetic_radix(conv.text, RadixOf(conv.uppercase))
       IN  IF r.ok
           THEN conv' = [conv EXCEPT !.phase = "parsed", !.n = r.val]
           ELSE conv' = [conv EXCEPT !.phase = "failed", !.back = r]
    /\ UNCHANGED <<s, pos, i, j, state, tokens, result, iters, maxIters, build>>

\* to_alphabetic_radix of that rank
RankToString ==
    /\ conv.phase = "parsed"
    /\ conv' = [conv EXCEPT !.phase = "restored",
                            !.back = to_alphabetic_radix(conv.n, RadixOf(conv.uppercase))]
    /\ UNCHANGED <<s, pos, i, j, state, tokens, result, iters, maxIters, build>>

NextConv == RankToText \/ TextToRank \/ StringToRank \/ RankToString

SpecConv == InitConv /\ [][NextConv]_vars

\* Patterns of at most MaxIterSegs pieces, each expanded by up to MaxIters
\* sequences: pattern.iter() is called again while the sequences obtained
\* before are unconsumed, partly consumed or finished, and the sequences are
\* drawn in any interleaving.
MaxIters == 2
MaxIterSegs == 2

\* a literal, a set, a range of two strings and an empty range
IterSegments == {Seg_slash, Seg_set, Seg_str, Seg_num_down}

IterInputs == {Concat(segs) : segs \in Strings(IterSegments, MaxIterSegs)}

InitIters ==
    \E str \in IterInputs \cup {T_two_set, OverflowInput} : Start(str, MaxIters)

SpecIters == InitIters /\ [][Next]_vars

\* Patterns of one bracket group "[lo-hi]" whose endpoints lie around
\* usize::MAX = 65535: the letters of ranks 1, 2, 65535, 65536, 65537 and
\* 65538 and the numbers 1, 65534, 65535, 65536 and 99999.
\* "crxo", "crxp", "crxq", "crxr"
Letters_max == <<99, 114, 120, 111>>
Letters_max1 == <<99, 114, 120, 112>>
Letters_max2 == <<99, 114, 120, 113>>
Letters_max3 == <<99, 114, 120, 114>>
\* "65534", "65535", "65536", "99999"
Digits_max_1 == <<54, 53, 53, 51, 52>>
Digits_max == <<54, 53, 53, 51, 53>>
Digits_max1 == <<54, 53, 53, 51, 54>>
Digits_nines == <<57, 57, 57, 57, 57>>

WideEndpoints ==
    {<<LetterLowerA>>, <<LetterLowerB>>, Letters_max, Letters_max1, Letters_max2,
     Letters_max3, <<Digit1>>, Digits_max_1, Digits_max, Digits_max1, Digits_nines}

WideInputs ==
    {RangeInput(p[1], p[2]) :
        p \in {q \in WideEndpoints \X WideEndpoints : ShortRange(q[1], q[2])}}

InitWide == \E str \in WideInputs \cup CommonInputs : Start(str, 1)

SpecWide == InitWide /\ [][Next]_vars

\* Patterns of one bracket group "[body]", the body of at most MaxGroupBody
\* characters among a digit, a letter and '-': with no '-', with one, with
\* several.  They are parsed only; no expansion is asked for.
MaxGroupBody == 5
GroupChars == {Digit1, LetterLowerA, Hyphen}

GroupInputs ==
    {<<LBracket>> \o body \o <<RBracket>> : body \in Strings(GroupChars, MaxGroupBody)}

InitGroup ==
    \/ \E str \in GroupInputs : Start(str, 0)
    \/ \E str \in CommonInputs : Start(str, 1)

SpecGroup == InitGroup /\ [][Next]_vars

(***************************************************************************)
(* Properties.                                                             *)
(***************************************************************************)
Delimiters == {LBrace, LBracket, RBracket, RBrace}

NoDelimiters(str) == \A k \in 1..Len(str) : str[k] \notin Delimiters

\* C1 (as claimed): an input with none of '{', '[', ']', '}' parses, and its
\* expansion is exactly one string, the input itself.  Stated for the inputs
\* of at least one character; the expansion of the empty input is the
\* product of no factors.
C1_PlainInputYieldsItself ==
    (NoDelimiters(s) /\ s # <<>>) =>
        /\ result.kind # "Err"
        /\ \A k \in 1..Len(iters) :
              /\ \A m \in 1..Len(iters[k].out) : iters[k].out[m] = s
              /\ iters[k].done => iters[k].out = <<s>>

\* C2 (as claimed): a scan that ends inside an unclosed '{' or '[' is an
\* error: every successful parse ends in state Plain.
C2_SuccessEndsPlain ==
    result = ParseOk => state = Plain

\* the first character of str, from the k-th on, that is a delimiter illegal
\* where it stands (0: none), when the scan is in mode at k: "P" outside any
\* group, "S" inside '{', "R" inside '['
RECURSIVE FirstIllegalFrom(_, _, _)
FirstIllegalFrom(str, k, mode) ==
    IF k > Len(str) THEN 0
    ELSE IF str[k] = LBrace
    THEN IF mode # "P" THEN k ELSE FirstIllegalFrom(str, k + 1, "S")
    ELSE IF str[k] = LBracket
    THEN IF mode # "P" THEN k ELSE FirstIllegalFrom(str, k + 1, "R")
    ELSE IF str[k] = RBrace
    THEN IF mode # "S" THEN k ELSE FirstIllegalFrom(str, k + 1, "P")
    ELSE IF str[k] = RBracket
    THEN IF mode # "R" THEN k ELSE FirstIllegalFrom(str, k + 1, "P")
    ELSE IF str[k] = Comma /\ mode = "R" THEN k
    ELSE FirstIllegalFrom(str, k + 1, mode)

FirstIllegal(str) == FirstIllegalFrom(str, 1, "P")

\* the number of bytes of the characters before the k-th
BytesBefore(str, k) ==
    LET RECURSIVE Sum(_)
        Sum(m) == IF m = 0 THEN 0 ELSE Utf8Len(str[m]) + Sum(m - 1)
    IN  Sum(k - 1)

\* C3: the scan never passes the first delimiter that is illegal in its
\* state and never succeeds on an input that has one; when parse fails at
\* it, and only then, the error is "unexpected character" with that
\* character and its byte offset in the input.
C3_UnexpectedCharacter ==
    LET k == FirstIllegal(s)
    IN  /\ k # 0 => (pos <= k /\ result # ParseOk)
        /\ (result.kind = "Err" /\ pos = k) =>
              result.err = [msg |-> "unexpected character", char |-> s[k],
                            pos |-> BytesBefore(s, k)]
        /\ (result.kind = "Err" /\ result.err.msg = "unexpected character") => pos = k

\* parse failed at an illegal delimiter that multi-byte characters precede
C3_Witness ==
    /\ result.kind = "Err" /\ result.err.msg = "unexpected character"
    /\ FirstIllegal(s) = pos
    /\ result.err.pos > pos - 1

\* token.iter().collect(): the values a token denotes, in order
RECURSIVE Drain(_)
Drain(it) ==
    LET r == TokenIter_next(it)
    IN  IF r.val = None THEN <<>> ELSE <<r.val[1]>> \o Drain(r.it)

TokenValues(t) == Drain(TokenIter_new(t))

\* n_k * ... * n_last, the number of combinations of the segments from k on
RECURSIVE CountFrom(_, _)
CountFrom(toks, k) ==
    IF k > Len(toks) THEN 1
    ELSE Len(TokenValues(toks[k])) * CountFrom(toks, k + 1)

\* the m-th combination (from 0) in row-major order: the choice of segment k
\* is the k-th digit of m in the mixed radix n_1, ..., n_k
Choice(toks, m, k) ==
    (m \div CountFrom(toks, k + 1)) % Len(TokenValues(toks[k]))

Combination(toks, m) ==
    Concat([k \in 1..Len(toks) |-> TokenValues(toks[k])[Choice(toks, m, k) + 1]])

\* C4: an expansion of a pattern with segments of n_1, ..., n_k values
\* (k >= 1) yields the combinations in row-major order, the last segment
\* varying fastest, each the concatenation of its choices, and ends after
\* exactly n_1 * ... * n_k of them.
C4_RowMajorProduct ==
    (result = ParseOk /\ tokens # <<>>) =>
        \A n \in 1..Len(iters) :
            /\ Len(iters[n].out) <= CountFrom(tokens, 1)
            /\ \A m \in 1..Len(iters[n].out) :
                  iters[n].out[m] = Combination(tokens, m - 1)
            /\ iters[n].done => Len(iters[n].out) = CountFrom(tokens, 1)

\* the expansion of "/[1-2]/file/[099-101]" has ended after its six strings
C4_Witness ==
    /\ s = T_two_num_range
    /\ Len(iters) = 1 /\ iters[1].done /\ Len(iters[1].out) = 6

\* str without its leading and trailing whitespace
Trimmed(str) ==
    LET ks == {k \in 1..Len(str) : ~IsWhitespace(str[k])}
    IN  IF ks = {} THEN <<>>
        ELSE SubSeq(str, CHOOSE k \in ks : \A m \in ks : k <= m,
                         CHOOSE k \in ks : \A m \in ks : k >= m)

\* the input is one bracket group with one '-': "[" low "-" high "]"
IsRangeInput(str) ==
    /\ Len(str) >= 3 /\ str[1] = LBracket /\ str[Len(str)] = RBracket
    /\ Cardinality({k \in 2..Len(str) - 1 : str[k] = Hyphen}) = 1
    /\ \A k \in 2..Len(str) - 1 : str[k] \notin Delimiters \cup {Comma}

HyphenAt(str) == CHOOSE k \in 2..Len(str) - 1 : str[k] = Hyphen
LowText(str) == Trimmed(SubSeq(str, 2, HyphenAt(str) - 1))
HighText(str) == Trimmed(SubSeq(str, HyphenAt(str) + 1, Len(str) - 1))

\* a non-empty string of characters between first and last
IsOver(str, first, last) ==
    str # <<>> /\ \A k \in 1..Len(str) : str[k] >= first /\ str[k] <= last

IsDigits(str) == IsOver(str, Digit0, Digit9)
IsLowerLetters(str) == IsOver(str, LowerA, LowerZ)
IsUpperLetters(str) == IsOver(str, UpperA, UpperZ)

RECURSIVE Power(_, _)
Power(b, e) == IF e = 0 THEN 1 ELSE b * Power(b, e - 1)

\* the sum of (str[k] - zero) * base^(Len(str) - k)
PositionalValue(str, base, zero) ==
    LET RECURSIVE Sum(_)
        Sum(k) == IF k = 0 THEN 0
                  ELSE (str[k] - zero) * Power(base, Len(str) - k) + Sum(k - 1)
    IN  Sum(Len(str))

DecimalValue(str) == PositionalValue(str, 10, Digit0)

\* the bijective base-26 rank: a = 1, ..., z = 26, aa = 27, ...
Rank(str) ==
    IF IsUpperLetters(str) THEN PositionalValue(str, 26, UpperA - 1)
    ELSE PositionalValue(str, 26, LowerA - 1)

Smaller(a, b) == IF a < b THEN a ELSE b

\* the number of integers from lo to hi
CountBetween(lo, hi) == IF hi < lo THEN 0 ELSE hi - lo + 1

\* str is v in decimal, left-padded with zeros to width characters, in full
\* when v has more digits
IsPaddedDecimal(str, v, width) ==
    /\ IsDigits(str) /\ DecimalValue(str) = v
    /\ Len(str) >= width
    /\ Len(str) > width => (Len(str) = 1 \/ str[1] # Digit0)

\* C5: "[low-high]" with endpoints of ASCII digits parses to the numeric
\* range low..high padded to the shorter endpoint's width, and its expansion
\* is low, low + 1, ..., high, each once, zero-padded to that width and
\* printed in full when longer.
C5_NumericRange ==
    (IsRangeInput(s) /\ IsDigits(LowText(s)) /\ IsDigits(HighText(s))) =>
        LET lo == DecimalValue(LowText(s))
            hi == DecimalValue(HighText(s))
            width == Smaller(Len(LowText(s)), Len(HighText(s)))
        IN  /\ result.kind # "Err"
            /\ result = ParseOk =>
                  tokens = <<new_plain(<<>>), new_num_range(lo, hi, width)>>
            /\ \A n \in 1..Len(iters) :
                  /\ Len(iters[n].out) <= CountBetween(lo, hi)
                  /\ \A m \in 1..Len(iters[n].out) :
                        IsPaddedDecimal(iters[n].out[m], lo + m - 1, width)
                  /\ iters[n].done => Len(iters[n].out) = CountBetween(lo, hi)

\* a numeric range with endpoints of different widths has been expanded
C5_Witness ==
    /\ IsRangeInput(s) /\ IsDigits(LowText(s)) /\ IsDigits(HighText(s))
    /\ Len(LowText(s)) # Len(HighText(s))
    /\ Len(iters) = 1 /\ iters[1].done /\ Len(iters[1].out) >= 3

\* the odometer successor of a string over the letters first..last
RECURSIVE Successor(_, _, _)
Successor(str, first, last) ==
    IF str = <<>> THEN <<first>>
    ELSE IF str[Len(str)] < last
    THEN SubSeq(str, 1, Len(str) - 1) \o <<str[Len(str)] + 1>>
    ELSE Successor(SubSeq(str, 1, Len(str) - 1), first, last) \o <<first>>

\* C6: "[start-end]" with endpoints of ASCII letters of one case expands to
\* the strings of that case of rank rank(start), ..., rank(end), in that
\* order, each the odometer successor of the one before (z -> aa, az -> ba).
C6_AlphabeticRange ==
    (/\ IsRangeInput(s)
     /\ \/ IsLowerLetters(LowText(s)) /\ IsLowerLetters(HighText(s))
        \/ IsUpperLetters(LowText(s)) /\ IsUpperLetters(HighText(s))) =>
        LET upper == IsUpperLetters(LowText(s))
            first == IF upper THEN UpperA ELSE LowerA
            last == IF upper THEN UpperZ ELSE LowerZ
            lo == Rank(LowText(s))
            hi == Rank(HighText(s))
        IN  /\ result.kind # "Err"
            /\ \A n \in 1..Len(iters) :
                  LET out == iters[n].out
                  IN  /\ Len(out) <= CountBetween(lo, hi)
                      /\ \A m \in 1..Len(out) :
                            /\ IsOver(out[m], first, last)
                            /\ Rank(out[m]) = lo + m - 1
                      /\ Len(out) >= 1 => out[1] = LowText(s)
                      /\ \A m \in 1..Len(out) - 1 :
                            out[m + 1] = Successor(out[m], first, last)
                      /\ iters[n].done => Len(out) = CountBetween(lo, hi)

\* an alphabetic range has been expanded across a carry
C6_Witness ==
    /\ IsRangeInput(s) /\ IsLowerLetters(LowText(s)) /\ IsLowerLetters(HighText(s))
    /\ Len(iters) = 1 /\ iters[1].done /\ Len(iters[1].out) >= 2
    /\ \E m \in 1..Len(iters[1].out) - 1 :
          Len(iters[1].out[m]) = 2 /\ iters[1].out[m][2] = LowerZ

\* endpoints a range may have: digits, or letters of one case
ValidEndpoints(lo, hi) ==
    \/ IsDigits(lo) /\ IsDigits(hi)
    \/ IsLowerLetters(lo) /\ IsLowerLetters(hi)
    \/ IsUpperLetters(lo) /\ IsUpperLetters(hi)

\* C8: a bracket group whose trimmed endpoints are not both strings of ASCII
\* digits nor both strings of ASCII letters of one case is rejected: parse
\* does not succeed and the scan does not pass the ']'.
C8_InvalidRangeRejected ==
    (IsRangeInput(s) /\ ~ValidEndpoints(LowText(s), HighText(s))) =>
        /\ result # ParseOk
        /\ pos <= Len(s)

\* parse has rejected a group whose endpoints both start with a lowercase
\* letter, for what follows the first character
C8_Witness ==
    /\ IsRangeInput(s) /\ ~ValidEndpoints(LowText(s), HighText(s))
    /\ LowText(s) # <<>> /\ IsAsciiLower(LowText(s)[1])
    /\ HighText(s) # <<>> /\ IsAsciiLower(HighText(s)[1])
    /\ result.kind = "Err"

\* C7: to_alphabetic_radix and parse_alphabetic_radix are inverses: a rank
\* of 1..MaxRank converted to a string parses back to itself, and a
\* non-empty string over one alphabet parses, to a rank of at least 1 that
\* converts back to the string, for both alphabets.
C7_RoundTrip ==
    /\ conv.phase = "back" => conv.back = Ok(conv.n)
    /\ conv.phase # "failed"
    /\ conv.phase = "parsed" => conv.n >= 1
    /\ conv.phase = "restored" => conv.back = conv.text

\* the rank MaxRank has made the round trip in the uppercase alphabet
C7_Witness ==
    conv.phase = "back" /\ conv.n = MaxRank /\ conv.uppercase /\ Len(conv.text) = 3

\* seg occurs in str
ContainsSeg(str, seg) ==
    \E k \in 0..Len(str) - Len(seg) : SubSeq(str, k + 1, k + Len(seg)) = seg

DenotesNothing(t) == TokenValues(t) = <<>>

\* C9: a descending range ("[5-3]", "[b-a]") is parsed without error to a
\* range token with start > end that denotes no value, and an expansion of
\* a pattern with a segment that denotes no value yields no string, wherever
\* the segment stands.
C9_EmptyRangeEmptiesProduct ==
    /\ (ContainsSeg(s, Seg_num_down) \/ ContainsSeg(s, Seg_str_down)) =>
          /\ result.kind # "Err"
          /\ result = ParseOk =>
                \E k \in 1..Len(tokens) :
                    /\ tokens[k].kind \in {"NumRange", "StrRange"}
                    /\ tokens[k].start > tokens[k].end
                    /\ DenotesNothing(tokens[k])
    /\ (result = ParseOk /\ \E k \in 1..Len(tokens) : DenotesNothing(tokens[k])) =>
          \A n \in 1..Len(iters) : iters[n].out = <<>>

\* the expansion of "{a,b}[5-3][1-3]" has ended with nothing yielded
C9_Witness ==
    /\ s = Concat(<<Seg_set, Seg_num_down, Seg_num>>)
    /\ Len(iters) = 1 /\ iters[1].done /\ iters[1].out = <<>>

\* the input is one brace group: "{" body "}"
IsSetInput(str) ==
    /\ Len(str) >= 2 /\ str[1] = LBrace /\ str[Len(str)] = RBrace
    /\ \A k \in 2..Len(str) - 1 : str[k] \notin Delimiters

\* the comma-separated pieces of str, in order
RECURSIVE Pieces(_)
Pieces(str) ==
    LET cs == {k \in 1..Len(str) : str[k] = Comma}
        c == CHOOSE k \in cs : \A m \in cs : k <= m
    IN  IF cs = {} THEN <<str>>
        ELSE <<SubSeq(str, 1, c - 1)>> \o Pieces(SubSeq(str, c + 1, Len(str)))

Alternatives(str) ==
    LET ps == Pieces(SubSeq(str, 2, Len(str) - 1))
    IN  [k \in 1..Len(ps) |-> Trimmed(ps[k])]

\* C10: "{v1,...,vn}" parses to the set of its n comma-separated pieces in
\* order, each without its leading and trailing whitespace and otherwise
\* unchanged, and its expansion is those pieces, each once, in that order.
C10_SetAlternatives ==
    IsSetInput(s) =>
        /\ result.kind # "Err"
        /\ result = ParseOk => tokens = <<new_plain(<<>>), new_set(Alternatives(s))>>
        /\ \A n \in 1..Len(iters) :
              /\ Len(iters[n].out) <= Len(Alternatives(s))
              /\ \A m \in 1..Len(iters[n].out) : iters[n].out[m] = Alternatives(s)[m]
              /\ iters[n].done => iters[n].out = Alternatives(s)

\* the expansion of "{ a,<U+4F60> }"-like input: a piece with whitespace around
\* it and a non-ASCII piece have been yielded
C10_Witness ==
    /\ s = SetInput(<<Space, LetterLowerA, Comma, CjkNi>>)
    /\ Len(iters) = 1 /\ iters[1].done
    /\ iters[1].out = <<(<<LetterLowerA>>), (<<CjkNi>>)>>

Min(a, b) == IF a <= b THEN a ELSE b

\* the sequences obtained from the pattern agree on every position both have
\* reached, and one that has ended is no shorter than any other
SequencesAgree ==
    \A a, b \in 1..Len(iters) :
        /\ \A p \in 1..Min(Len(iters[a].out), Len(iters[b].out)) :
              iters[a].out[p] = iters[b].out[p]
        /\ iters[a].done => Len(iters[b].out) <= Len(iters[a].out)

\* C11: iter() is restartable and deterministic.  Once the pattern is
\* parsed, no call of iter() and no draw changes its original string or its
\* tokens, and whatever was drawn from the sequences obtained before, the
\* sequences of one pattern are equal element by element and all complete.
C11_Restartable ==
    [][result = ParseOk => (s' = s /\ tokens' = tokens /\ SequencesAgree')]_vars

\* "/{a,b,c}/file/{x,y,z}" was expanded twice, nine strings each time
C11_Witness ==
    /\ s = T_two_set /\ Len(iters) = 2
    /\ iters[1].done /\ iters[2].done
    /\ Len(iters[1].out) = 9 /\ iters[1].out = iters[2].out

\* the value the endpoint text denotes, in exact arithmetic
EndpointValue(str) == IF IsDigits(str) THEN DecimalValue(str) ELSE Rank(str)

\* both endpoints are digits, or both letters of one case
IsNumberOrLetters(str) ==
    \/ IsDigits(LowText(str)) /\ IsDigits(HighText(str))
    \/ IsLowerLetters(LowText(str)) /\ IsLowerLetters(HighText(str))
    \/ IsUpperLetters(LowText(str)) /\ IsUpperLetters(HighText(str))

\* C12 (as claimed): Pattern::parse never panics, and a range with an
\* endpoint beyond usize::MAX, numeric or alphabetic, is not parsed
\* successfully: it is an error, not an overflow panic and not a wrapped
\* rank.
C12_NeverPanics ==
    /\ result.kind # "Panic"
    /\ (IsRangeInput(s) /\ IsNumberOrLetters(s) /\ result = ParseOk) =>
          /\ EndpointValue(LowText(s)) <= UsizeMax
          /\ EndpointValue(HighText(s)) <= UsizeMax

\* the index of the first delimiter of str from k on, Len(str) + 1 if none
RECURSIVE NextDelimiter(_, _)
NextDelimiter(str, k) ==
    IF k > Len(str) \/ str[k] \in Delimiters THEN k ELSE NextDelimiter(str, k + 1)

Closes(open, close) ==
    \/ open = LBrace /\ close = RBrace
    \/ open = LBracket /\ close = RBracket

\* str is literal text and groups, every group opened and closed by its own
\* pair of delimiters with no delimiter in between
RECURSIVE WellFormed(_)
WellFormed(str) ==
    LET k == NextDelimiter(str, 1)
        m == NextDelimiter(str, k + 1)
    IN  \/ k > Len(str)
        \/ /\ m <= Len(str) /\ Closes(str[k], str[m])
           /\ WellFormed(SubSeq(str, m + 1, Len(str)))

IsPrefix(a, b) == Len(a) <= Len(b) /\ SubSeq(b, 1, Len(a)) = a

Values(t) == {TokenValues(t)[n] : n \in 1..Len(TokenValues(t))}

\* out is the well-formed str with each run of characters outside the groups
\* copied as it is and each group replaced by a value of the corresponding
\* one of groups
RECURSIVE Substitutes(_, _, _)
Substitutes(out, str, groups) ==
    LET k == NextDelimiter(str, 1)
        m == NextDelimiter(str, k + 1)
        literal == SubSeq(str, 1, k - 1)
    IN  IF k > Len(str) THEN groups = <<>> /\ out = str
        ELSE /\ groups # <<>> /\ IsPrefix(literal, out)
             /\ \E v \in Values(Head(groups)) :
                   /\ IsPrefix(literal \o v, out)
                   /\ Substitutes(SubSeq(out, Len(literal \o v) + 1, Len(out)),
                                  SubSeq(str, m + 1, Len(str)), Tail(groups))

Groups(toks) == SelectSeq(toks, LAMBDA t : t.kind # "Plain")

\* C13 (as claimed): every string a successfully parsed pattern yields is
\* the input with each group replaced by one of its values and every run of
\* characters outside the groups, before, between and after them, copied
\* verbatim, whitespace included.
C13_LiteralsVerbatim ==
    (WellFormed(s) /\ result = ParseOk) =>
        \A n \in 1..Len(iters) : \A m \in 1..Len(iters[n].out) :
            Substitutes(iters[n].out[m], s, Groups(tokens))

\* C14 (as claimed): the empty input parses to a pattern of zero segments,
\* and its expansion is exactly one value, the empty string.
C14_EmptyInput ==
    s = <<>> =>
        /\ result.kind \in {"Parsing", "Ok"}
        /\ result = ParseOk => tokens = <<>>
        /\ \A n \in 1..Len(iters) :
              /\ Len(iters[n].out) <= 1
              /\ iters[n].done => iters[n].out = <<Join(<<>>)>>

\* the input is one bracket group: "[" body "]", no delimiter in the body
IsGroupInput(str) ==
    /\ Len(str) >= 2 /\ str[1] = LBracket /\ str[Len(str)] = RBracket
    /\ \A k \in 2..Len(str) - 1 : str[k] \notin Delimiters

HyphenCount(str) == Cardinality({k \in 1..Len(str) : str[k] = Hyphen})

\* C15 (as claimed): a bracket group is accepted only when its content is
\* exactly one '-'-separated pair; a group with no '-' and a group with two
\* or more are rejected.
C15_ExactlyOnePair ==
    (IsGroupInput(s) /\ result = ParseOk) => HyphenCount(s) = 1

\* what a sequence drawn alone yields from it on, up to its end
RECURSIVE Alone(_)
Alone(it) == IF it.done THEN it.out ELSE Alone(DrawOf(it))

\* the expansion of the pattern drawn by one sequence alone; that of a
\* pattern with no tokens is the build's product of no factors
AloneExpansion ==
    IF tokens # <<>> THEN Alone(Pattern_iter(tokens))
    ELSE IF build.nullary = "one" THEN <<Join(<<>>)>> ELSE <<>>

EachFollowsAlone ==
    LET alone == AloneExpansion
    IN  \A n \in 1..Len(iters) :
            /\ IsPrefix(iters[n].out, alone)
            /\ iters[n].done => iters[n].out = alone

\* C16: sequences of one pattern drawn in any interleaving are independent.
\* A step moves at most one of them and leaves every other as it was, and
\* each yields, in the same order, what a sequence drawn alone yields, all of
\* it by the time it ends.
C16_Independent ==
    /\ [](result = ParseOk => EachFollowsAlone)
    /\ [][\A a, b \in 1..Len(iters) :
            (a # b /\ iters'[a] # iters[a]) => iters'[b] = iters[b]]_vars

\* of two expansions of "/{a,b,c}/file/{x,y,z}", the first has ended while
\* the second is at its fourth string
C16_Witness ==
    /\ s = T_two_set /\ Len(iters) = 2
    /\ iters[1].done /\ Len(iters[1].out) = 9
    /\ ~iters[2].done /\ Len(iters[2].out) = 4

HasSeparator(str) == \E k \in 1..Len(str) : str[k] \in {Comma, Hyphen}

\* C17: a ',' or a '-' outside the groups, and a '-' inside a set, are
\* ordinary characters.  An input with no group that has one parses, and when
\* it has no whitespace at its ends it is one literal, the input, and yields
\* the input; a set with a '-' parses to its comma-separated alternatives,
\* the '-' kept in the alternative it stands in.
C17_OrdinarySeparators ==
    /\ (NoDelimiters(s) /\ HasSeparator(s)) =>
          /\ result.kind \in {"Parsing", "Ok"}
          /\ Trimmed(s) = s =>
                /\ result = ParseOk => tokens = <<new_plain(s)>>
                /\ \A n \in 1..Len(iters) :
                      /\ \A m \in 1..Len(iters[n].out) : iters[n].out[m] = s
                      /\ iters[n].done => Len(iters[n].out) = 1
    /\ (IsSetInput(s) /\ HyphenCount(s) > 0) =>
          /\ result.kind \in {"Parsing", "Ok"}
          /\ result = ParseOk =>
                /\ tokens = <<new_plain(<<>>), new_set(Alternatives(s))>>
                /\ HyphenCount(Concat(tokens[2].values)) = HyphenCount(s)
                /\ Len(tokens[2].values) = Len(s) - Len(SelectSeq(s, LAMBDA c : c # Comma)) + 1

\* "{-,}" has been expanded to "-" and ""
C17_Witness ==
    /\ s = <<LBrace, Hyphen, Comma, RBrace>>
    /\ Len(iters) = 1 /\ iters[1].done
    /\ iters[1].out = <<(<<Hyphen>>), (<<>>)>>

\* C18 (as claimed): every StrRange token that parse produces has a low and
\* a high rank of at least 1, so no alphabetic range yields the empty
\* string.
C18_RanksPositive ==
    /\ \A k \in 1..Len(tokens) :
          tokens[k].kind = "StrRange" => tokens[k].start >= 1 /\ tokens[k].end >= 1
    /\ (IsRangeInput(s) /\ IsLowerLetters(LowText(s)) /\ IsLowerLetters(HighText(s))) =>
          \A n \in 1..Len(iters) : \A m \in 1..Len(iters[n].out) :
              iters[n].out[m] # <<>>

CommaCount(str) == Cardinality({k \in 1..Len(str) : str[k] = Comma})

\* C19: a Set token holds one value more than there are ',' between its
\* '{' and '}', so at least one: an empty alternative counts, "{}" denotes
\* the one value "" and "{a,,a}" three, and the expansion of a set has as
\* many strings and is never empty.
C19_SetNeverEmpty ==
    /\ \A k \in 1..Len(tokens) :
          tokens[k].kind = "Set" => Len(tokens[k].values) >= 1
    /\ IsSetInput(s) =>
          /\ result = ParseOk =>
                /\ Len(tokens) = 2
                /\ Len(tokens[2].values) = CommaCount(s) + 1
                /\ Len(TokenValues(tokens[2])) = CommaCount(s) + 1
          /\ \A n \in 1..Len(iters) :
                iters[n].done => Len(iters[n].out) = CommaCount(s) + 1
    /\ (s = <<LBrace, RBrace>> /\ result = ParseOk) =>
          tokens = <<new_plain(<<>>), new_set(<<(<<>>)>>)>>

\* "{a,,a}" has been expanded to "a", "" and "a"
C19_Witness ==
    /\ s = <<LBrace, LetterLowerA, Comma, Comma, LetterLowerA, RBrace>>
    /\ Len(iters) = 1 /\ iters[1].done
    /\ iters[1].out = <<(<<LetterLowerA>>), (<<>>), (<<LetterLowerA>>)>>


====
